---- MODULE Spec2Model ----
(***************************************************************************)
(* Model of the maptypings crate (src/src/lib.rs): the extension traits    *)
(* MapType, NoneIf, ErrIf, ForgetValue, WrapInRes, SwapRes, AddToRes and   *)
(* Mutate.  A caller picks a method, a receiver and the arguments; the     *)
(* method body then runs statement by statement.  Every invocation of a    *)
(* caller-supplied closure is appended to the log `calls`.                 *)
(***************************************************************************)
EXTENDS Integers, Sequences, FiniteSets, TLC

\* Longest receiver (a String / Vec<u32>) the caller builds.
MaxLen == 2
\* Largest element of a receiver.
MaxElem == 1
\* Longest method chain `a.m1().swap_res()...` the caller writes after the first call.
MaxChain == 1

VARIABLES op, pc, self, fn, arg, val, scrut, out, calls, hist

vars == <<op, pc, self, fn, arg, val, scrut, out, calls, hist>>

----------------------------------------------------------------------------
\* Values

\* The payload type T / E / O of the examples: a String or Vec<u32>.
Vals == UNION {[1..n -> 0..MaxElem] : n \in 0..MaxLen}

\* Option<T>
None == [tag |-> "None"]
Some(v) == [tag |-> "Some", val |-> v]
\* Result<T, E>
Ok(v) == [tag |-> "Ok", val |-> v]
Err(v) == [tag |-> "Err", val |-> v]
\* ()
Unit == [tag |-> "Unit"]

Options == {None} \cup {Some(v) : v \in Vals}
Results == {Ok(v) : v \in Vals} \cup {Err(v) : v \in Vals}

\* The return slot before the method has returned.
Pending == [tag |-> "Pending"]
\* No closure / no argument bound.
NoFn == "-"
NoArg == [tag |-> "NoArg"]

----------------------------------------------------------------------------
\* Caller-supplied closures

\* cond: impl Fn(&T) -> bool
Conds == {"is_empty", "not_empty", "starts_with_0", "always"}

CallCond(cond, v) ==
    CASE cond = "is_empty" -> Len(v) = 0
      [] cond = "not_empty" -> Len(v) # 0
      [] cond = "starts_with_0" -> Len(v) > 0 /\ v[1] = 0
      [] cond = "always" -> TRUE

\* Vec::sort (insertion sort into an ascending sequence)
RECURSIVE Insert(_, _)
Insert(x, s) ==
    IF s = <<>> THEN <<x>>
    ELSE IF x <= Head(s) THEN <<x>> \o s
    ELSE <<Head(s)>> \o Insert(x, Tail(s))

RECURSIVE Sort(_)
Sort(s) == IF s = <<>> THEN <<>> ELSE Insert(Head(s), Sort(Tail(s)))

RECURSIVE Reverse(_)
Reverse(s) == IF s = <<>> THEN <<>> ELSE Reverse(Tail(s)) \o <<Head(s)>>

\* f: impl FnOnce(M) -> N
MapFns == {"Some", "reverse", "sorted", "first"}

CallMapFn(f, v) ==
    CASE f = "Some" -> Some(v)
      [] f = "reverse" -> Reverse(v)
      [] f = "sorted" -> Sort(v)
      [] f = "first" -> IF v = <<>> THEN None ELSE Some(<<Head(v)>>)

\* f: impl FnOnce(&mut T) -> R
MutFns == {"sort", "push", "pop", "clear", "len"}

\* what f leaves behind the &mut T
MutEffect(f, v) ==
    CASE f = "sort" -> Sort(v)
      [] f = "push" -> Append(v, 0)
      [] f = "pop" -> IF v = <<>> THEN v ELSE SubSeq(v, 1, Len(v) - 1)
      [] f = "clear" -> <<>>
      [] f = "len" -> v

\* the R that f returns
MutRet(f, v) ==
    CASE f = "sort" -> Unit
      [] f = "push" -> Unit
      [] f = "pop" -> IF v = <<>> THEN None ELSE Some(<<v[Len(v)]>>)
      [] f = "clear" -> Unit
      [] f = "len" -> Some(v)

----------------------------------------------------------------------------
\* Method bodies (the expressions of lib.rs)

\* bug: the input is handed back, f's output is lost
map_type_passthrough(v, f) == v

\* f(self)
map_type(v, f) == CallMapFn(f, v)

\* bug: the arms are exchanged
none_if_inverted(v, c) == CASE c = TRUE -> Some(v) [] OTHER -> None

\* match cond(&self) { true => None, _ => Some(self) }   (c is cond(&self))
none_if(v, c) == CASE c = TRUE -> None [] OTHER -> Some(v)

\* bug: the arms are exchanged
err_if_inverted(v, c, err) == CASE c = TRUE -> Ok(v) [] OTHER -> Err(err)

\* match cond(&self) { true => Err(err), _ => Ok(self) }   (c is cond(&self))
err_if(v, c, err) == CASE c = TRUE -> Err(err) [] OTHER -> Ok(v)

\* fn forget_val(self) {}
forget_val(v) == Unit

in_ok(v) == Ok(v)
in_err(v) == Err(v)

\* bug: the Err arm keeps its branch
swap_res_err_stays(r) ==
    CASE r.tag = "Ok" -> Err(r.val)
      [] r.tag = "Err" -> Err(r.val)

\* bug: nothing is exchanged
swap_res_identity(r) == r

\* match self { Ok(t) => Err(t), Err(e) => Ok(e) }
swap_res(r) ==
    CASE r.tag = "Ok" -> Err(r.val)
      [] r.tag = "Err" -> Ok(r.val)

\* bug: presence is taken for success, as ok_or does
add_ok_inverted(o, ok) ==
    CASE o.tag = "None" -> Err(ok)
      [] o.tag = "Some" -> Ok(o.val)

\* match self { None => Ok(ok), Some(e) => Err(e) }
add_ok(o, ok) ==
    CASE o.tag = "None" -> Ok(ok)
      [] o.tag = "Some" -> Err(o.val)

\* bug: the supplied value overrides the payload
ok_or_overrides(o, err) ==
    CASE o.tag = "Some" -> Err(err)
      [] o.tag = "None" -> Err(err)

\* Option::ok_or, as called by add_err
ok_or(o, err) ==
    CASE o.tag = "Some" -> Ok(o.val)
      [] o.tag = "None" -> Err(err)

\* bug: add_err written as a copy of add_ok
add_err_as_add_ok(o, err) ==
    CASE o.tag = "None" -> Ok(err)
      [] o.tag = "Some" -> Err(o.val)

\* self.ok_or(err)
add_err(o, err) == ok_or(o, err)

----------------------------------------------------------------------------
\* The caller

Init ==
    /\ op = "-"
    /\ pc = "idle"
    /\ self = NoArg
    /\ fn = NoFn
    /\ arg = NoArg
    /\ val = NoArg
    /\ scrut = FALSE
    /\ out = Pending
    /\ calls = <<>>
    /\ hist = <<>>

\* bind the arguments of receiver.method(f, a) and enter the body
Enter(method, receiver, f, a) ==
    /\ op' = method
    /\ pc' = "body"
    /\ self' = receiver
    /\ fn' = f
    /\ arg' = a
    /\ val' = NoArg
    /\ scrut' = FALSE
    /\ out' = Pending
    /\ calls' = <<>>

\* receiver.method(f, a) as the first call of the caller's expression (pc = "idle")
Call(method, receiver, f, a) ==
    /\ Enter(method, receiver, f, a)
    /\ hist' = <<>>

\* the method returns r to the caller
Return(r) ==
    /\ out' = r
    /\ pc' = "done"

\* one record per completed call of the chain
Done == [op |-> op, self |-> self, fn |-> fn, arg |-> arg, out |-> out]

\* The caller drops the result; the expression is over.
Drop ==
    /\ pc = "done"
    /\ op' = "-"
    /\ pc' = "idle"
    /\ self' = NoArg
    /\ fn' = NoFn
    /\ arg' = NoArg
    /\ val' = NoArg
    /\ scrut' = FALSE
    /\ out' = Pending
    /\ calls' = <<>>
    /\ hist' = <<>>

----------------------------------------------------------------------------
\* MapType

CallMapType ==
    /\ pc = "idle"
    /\ \E v \in Vals, f \in MapFns : Call("map_type", v, f, NoArg)

MapTypeBody ==
    /\ op = "map_type" /\ pc = "body"
    /\ calls' = Append(calls, [fn |-> fn, arg |-> self])
    /\ Return(map_type(self, fn))
    /\ UNCHANGED <<op, self, fn, arg, val, scrut, hist>>

----------------------------------------------------------------------------
\* NoneIf

CallNoneIf ==
    /\ pc = "idle"
    /\ \E v \in Vals, cond \in Conds : Call("none_if", v, cond, NoArg)

\* match cond(&self) {
NoneIfCond ==
    /\ op = "none_if" /\ pc = "body"
    /\ calls' = Append(calls, [fn |-> fn, arg |-> self])
    /\ scrut' = CallCond(fn, self)
    /\ pc' = "match"
    /\ UNCHANGED <<op, self, fn, arg, val, out, hist>>

\* bug: the arm evaluates the predicate again
NoneIfMatch_reeval ==
    /\ op = "none_if" /\ pc = "match"
    /\ calls' = Append(calls, [fn |-> fn, arg |-> self])
    /\ Return(none_if(self, CallCond(fn, self)))
    /\ UNCHANGED <<op, self, fn, arg, val, scrut, hist>>

\* true => None, _ => Some(self) }
NoneIfMatch ==
    /\ op = "none_if" /\ pc = "match"
    /\ Return(none_if(self, scrut))
    /\ UNCHANGED <<op, self, fn, arg, val, scrut, calls, hist>>

----------------------------------------------------------------------------
\* ErrIf

CallErrIf ==
    /\ pc = "idle"
    /\ \E v \in Vals, cond \in Conds, err \in Vals : Call("err_if", v, cond, err)

\* match cond(&self) {
ErrIfCond ==
    /\ op = "err_if" /\ pc = "body"
    /\ calls' = Append(calls, [fn |-> fn, arg |-> self])
    /\ scrut' = CallCond(fn, self)
    /\ pc' = "match"
    /\ UNCHANGED <<op, self, fn, arg, val, out, hist>>

\* true => Err(err), _ => Ok(self) }
ErrIfMatch ==
    /\ op = "err_if" /\ pc = "match"
    /\ Return(err_if(self, scrut, arg))
    /\ UNCHANGED <<op, self, fn, arg, val, scrut, calls, hist>>

----------------------------------------------------------------------------
\* ForgetValue

CallForgetVal ==
    /\ pc = "idle"
    /\ \E v \in Vals \cup Options \cup Results : Call("forget_val", v, NoFn, NoArg)

ForgetValBody ==
    /\ op = "forget_val" /\ pc = "body"
    /\ Return(forget_val(self))
    /\ UNCHANGED <<op, self, fn, arg, val, scrut, calls, hist>>

----------------------------------------------------------------------------
\* WrapInRes

CallInOk ==
    /\ pc = "idle"
    /\ \E v \in Vals : Call("in_ok", v, NoFn, NoArg)

InOkBody ==
    /\ op = "in_ok" /\ pc = "body"
    /\ Return(in_ok(self))
    /\ UNCHANGED <<op, self, fn, arg, val, scrut, calls, hist>>

CallInErr ==
    /\ pc = "idle"
    /\ \E v \in Vals : Call("in_err", v, NoFn, NoArg)

InErrBody ==
    /\ op = "in_err" /\ pc = "body"
    /\ Return(in_err(self))
    /\ UNCHANGED <<op, self, fn, arg, val, scrut, calls, hist>>

----------------------------------------------------------------------------
\* SwapRes

CallSwapRes ==
    /\ pc = "idle"
    /\ \E r \in Results : Call("swap_res", r, NoFn, NoArg)

\* the methods whose return type is a Result, so that `.swap_res()` type-checks on it
ResultMethods == {"err_if", "in_ok", "in_err", "swap_res", "add_ok", "add_err"}

\* `<expr>.swap_res()` on the Result the previous call of the chain returned
\* (lib.rs:130: opt_err.ok_or(16).swap_res())
ChainSwapRes ==
    /\ pc = "done"
    /\ op \in ResultMethods
    /\ Len(hist) < MaxChain
    /\ hist' = Append(hist, Done)
    /\ Enter("swap_res", out, NoFn, NoArg)

SwapResBody ==
    /\ op = "swap_res" /\ pc = "body"
    /\ Return(swap_res(self))
    /\ UNCHANGED <<op, self, fn, arg, val, scrut, calls, hist>>

----------------------------------------------------------------------------
\* AddToRes

CallAddOk ==
    /\ pc = "idle"
    /\ \E o \in Options, ok \in Vals : Call("add_ok", o, NoFn, ok)

AddOkBody ==
    /\ op = "add_ok" /\ pc = "body"
    /\ Return(add_ok(self, arg))
    /\ UNCHANGED <<op, self, fn, arg, val, scrut, calls, hist>>

CallAddErr ==
    /\ pc = "idle"
    /\ \E o \in Options, err \in Vals : Call("add_err", o, NoFn, err)

AddErrBody ==
    /\ op = "add_err" /\ pc = "body"
    /\ Return(add_err(self, arg))
    /\ UNCHANGED <<op, self, fn, arg, val, scrut, calls, hist>>

----------------------------------------------------------------------------
\* Mutate

CallMutate ==
    /\ pc = "idle"
    /\ \E v \in Vals, f \in MutFns : Call("mutate", v, f, NoArg)

\* let mut val = self;
MutateLet ==
    /\ op = "mutate" /\ pc = "body"
    /\ val' = self
    /\ pc' = "apply"
    /\ UNCHANGED <<op, self, fn, arg, scrut, out, calls, hist>>

\* f(&mut val);      (the R that f returns is dropped by the `;`)
MutateApply ==
    /\ op = "mutate" /\ pc = "apply"
    /\ calls' = Append(calls, [fn |-> fn, arg |-> val])
    /\ LET r == MutRet(fn, val)
       IN  val' = MutEffect(fn, val)
    /\ pc' = "ret"
    /\ UNCHANGED <<op, self, fn, arg, scrut, out, hist>>

\* bug: the receiver is returned, not the mutated local
MutateRet_self ==
    /\ op = "mutate" /\ pc = "ret"
    /\ Return(self)
    /\ UNCHANGED <<op, self, fn, arg, val, scrut, calls, hist>>

\* val
MutateRet ==
    /\ op = "mutate" /\ pc = "ret"
    /\ Return(val)
    /\ UNCHANGED <<op, self, fn, arg, val, scrut, calls, hist>>

----------------------------------------------------------------------------
\* Properties

\* the call of the chain that produced the receiver of the current call
Prev == hist[Len(hist)]

Returned(method) == op = method /\ pc = "done"

\* the closure was invoked exactly once, on v
CalledOnceOn(v) == calls = <<[fn |-> fn, arg |-> v]>>

IsSorted(s) == \A i \in 1..Len(s) - 1 : s[i] <= s[i + 1]

Count(s, x) == Cardinality({i \in 1..Len(s) : s[i] = x})

SameElements(s, t) ==
    /\ Len(s) = Len(t)
    /\ \A x \in 0..MaxElem : Count(s, x) = Count(t, x)

\* C1: add_ok(opt, x) returns Ok(x) when opt is None and Err(payload) when
\* opt is Some(payload); in the Some case x is not in the result.
C1_AddOk ==
    Returned("add_ok") =>
        /\ self.tag = "None" => out = Ok(arg)
        /\ self.tag = "Some" => out = Err(self.val)
        /\ (self.tag = "Some" /\ arg # self.val) => out.val # arg

C1_Witness ==
    /\ Returned("add_ok")
    /\ self = Some(<<1>>) /\ arg = <<0>>
    /\ out = Err(<<1>>)

\* C2: add_err(opt, x) returns Ok(payload) when opt is Some(payload) and
\* Err(x) when opt is None; in the Some case x is not in the result.
C2_AddErr ==
    Returned("add_err") =>
        /\ self.tag = "Some" => out = Ok(self.val)
        /\ self.tag = "None" => out = Err(arg)
        /\ (self.tag = "Some" /\ arg # self.val) => out.val # arg

C2_Witness ==
    /\ Returned("add_err")
    /\ self = Some(<<1>>) /\ arg = <<0>>
    /\ out = Ok(<<1>>)

\* C3: swap_res is involutive: r.swap_res().swap_res() is on the branch of r
\* and carries the payload of r.
C3_SwapInvolutive ==
    (Returned("swap_res") /\ hist # <<>> /\ Prev.op = "swap_res") =>
        /\ out.tag = Prev.self.tag
        /\ out.val = Prev.self.val
        /\ out = Prev.self

C3_Witness ==
    /\ Returned("swap_res")
    /\ hist # <<>> /\ Prev.op = "swap_res"
    /\ Prev.self = Err(<<0, 1>>) /\ self = Ok(<<0, 1>>)
    /\ out = Err(<<0, 1>>)

\* C4: swap_res(r) exchanges the branch and keeps the payload: Ok(t) becomes
\* Err(t), Err(e) becomes Ok(e); every input has a result and the result is
\* never on the branch of the input.
C4_SwapRes ==
    /\ Returned("swap_res") =>
        /\ out \in Results
        /\ self.tag = "Ok" => out = Err(self.val)
        /\ self.tag = "Err" => out = Ok(self.val)
        /\ out.tag # self.tag
        /\ out.val = self.val
    /\ (op = "swap_res" /\ pc = "body") => (self \in Results /\ ENABLED SwapResBody)

C4_Witness ==
    /\ Returned("swap_res")
    /\ hist = <<>>
    /\ self = Ok(<<1, 0>>)
    /\ out = Err(<<1, 0>>)

\* C5: none_if(v, p) returns None when p(v) is true and Some(v), v unchanged,
\* when p(v) is false.
C5_NoneIf ==
    Returned("none_if") =>
        /\ CallCond(fn, self) => out = None
        /\ ~CallCond(fn, self) => out = Some(self)

C5_Witness ==
    /\ Returned("none_if")
    /\ fn = "is_empty" /\ self = <<1, 0>>
    /\ out = Some(<<1, 0>>)

\* C6: err_if(v, p, e) returns Err(e) when p(v) is true and Ok(v), v
\* unchanged and e not in the result, when p(v) is false.
C6_ErrIf ==
    Returned("err_if") =>
        /\ CallCond(fn, self) => out = Err(arg)
        /\ ~CallCond(fn, self) => out = Ok(self)
        /\ (~CallCond(fn, self) /\ arg # self) => out.val # arg

C6_Witness ==
    /\ Returned("err_if")
    /\ fn = "is_empty" /\ self = <<1>> /\ arg = <<0, 0>>
    /\ out = Ok(<<1>>)

\* C7: mutate(v, f) applies f exactly once to v and returns the value as f
\* left it; what f returns is discarded and does not influence the result
\* (f = sort gives the ascending sequence of the same elements).
C7_Mutate ==
    Returned("mutate") =>
        /\ CalledOnceOn(self)
        /\ out = MutEffect(fn, self)
        /\ out = val
        /\ fn = "sort" => (IsSorted(out) /\ SameElements(out, self))

C7_Witness ==
    /\ Returned("mutate")
    /\ fn = "sort" /\ self = <<1, 0>>
    /\ out = <<0, 1>>

\* C8: map_type(v, f) invokes f exactly once on v and returns exactly f(v).
C8_MapType ==
    Returned("map_type") =>
        /\ CalledOnceOn(self)
        /\ out = CallMapFn(fn, self)

C8_Witness ==
    /\ Returned("map_type")
    /\ fn = "Some" /\ self = <<0, 1>>
    /\ out = Some(<<0, 1>>)

\* the methods that take a predicate
CondMethods == {"none_if", "err_if"}

C9_State ==
    op \in CondMethods =>
        /\ pc = "body" => (calls = <<>> /\ out = Pending)
        /\ pc = "match" =>
            (CalledOnceOn(self) /\ scrut = CallCond(fn, self) /\ out = Pending)
        /\ pc = "done" =>
            /\ CalledOnceOn(self)
            /\ out # Pending
            /\ out.tag \in {"Some", "Ok"} => out.val = self

C9_Step ==
    (op \in CondMethods /\ pc # "done") =>
        /\ self' = self
        /\ out' # Pending => (calls' = calls /\ Len(calls) = 1)

\* C9: in every call of none_if and err_if the predicate is evaluated exactly
\* once, before the result is built, on a borrowed view: the value in a
\* Some/Ok result is the value passed in, and the step that builds the result
\* does not call the predicate again.
C9_PredicateOnce == []C9_State /\ [][C9_Step]_vars

C9_Witness ==
    /\ Returned("err_if")
    /\ fn = "starts_with_0" /\ self = <<1, 1>> /\ arg = <<>>
    /\ calls = <<[fn |-> "starts_with_0", arg |-> <<1, 1>>]>>
    /\ out = Ok(<<1, 1>>)

\* C10: add_ok is the branch swap of add_err: add_ok(opt, x) equals
\* add_err(opt, x).swap_res() and add_err(opt, x) equals
\* add_ok(opt, x).swap_res().
C10_AddOkSwapsAddErr ==
    /\ Returned("add_ok") => out = swap_res(add_err(self, arg))
    /\ Returned("add_err") => out = swap_res(add_ok(self, arg))
    /\ (Returned("swap_res") /\ hist # <<>> /\ Prev.op = "add_err") =>
            out = add_ok(Prev.self, Prev.arg)
    /\ (Returned("swap_res") /\ hist # <<>> /\ Prev.op = "add_ok") =>
            out = add_err(Prev.self, Prev.arg)

C10_Witness ==
    /\ Returned("swap_res")
    /\ hist # <<>> /\ Prev.op = "add_err"
    /\ Prev.self = None /\ Prev.arg = <<1>>
    /\ out = Ok(<<1>>)

----------------------------------------------------------------------------

Next ==
    \/ CallMapType
    \/ MapTypeBody
    \/ CallNoneIf
    \/ NoneIfCond
    \/ NoneIfMatch
    \/ CallErrIf
    \/ ErrIfCond
    \/ ErrIfMatch
    \/ CallForgetVal
    \/ ForgetValBody
    \/ CallInOk
    \/ InOkBody
    \/ CallInErr
    \/ InErrBody
    \/ CallSwapRes
    \/ ChainSwapRes
    \/ SwapResBody
    \/ CallAddOk
    \/ AddOkBody
    \/ CallAddErr
    \/ AddErrBody
    \/ CallMutate
    \/ MutateLet
    \/ MutateApply
    \/ MutateRet
    \/ Drop

Spec == Init /\ [][Next]_vars

====
